---- MODULE Spec2Model ----
(***************************************************************************)
(* The Consultation Panel (component VoiceConsultation): its state record, *)
(* the recording ref, and its five handlers, each cut at its awaits.  The  *)
(* JavaScript event loop runs one handler segment at a time, so a segment  *)
(* between two awaits is one atomic action; several invocations of the     *)
(* same async handler can be suspended at once.  React renders between two *)
(* segments, so a press finds the buttons wired to the current state       *)
(* record; the updaters passed to setState apply to the current record.    *)
(***************************************************************************)
EXTENDS Integers, Sequences, FiniteSets

\* ---- bounds of the model -------------------------------------------------
\* handler continuations pending at once: suspended startRecording,
\* stopRecording and pickImage invocations, and stopRecording's timers
MaxPending == 2
\* capture handles the platform hands out in one run
MaxCaptures == 2
\* utterances in the speech synthesizer's queue at once
MaxSessions == 2

\* ---- values ---------------------------------------------------------------
\* the capture handles the platform can hand out
CaptureIds == 1..MaxCaptures
\* recording.current = null
NoHandle == 0
\* audioUri: null, imageUri: null
NoUri == <<>>
\* what the picker can return in result.assets[0].uri
ImageUris == {<<"image", 1>>, <<"image", 2>>}
\* Recording.getURI(): the location of the capture behind handle h
getURI(h) == <<"audio", h>>
\* the template literal of processConsultation
mockDiagnosis == "Based on your symptoms and the provided image, here are my recommendations: ..."

VARIABLES
    state,       \* the ConsultationState record held by useState
    recording,   \* recording.current: NoHandle or a capture handle
    captures,    \* platform side: each capture handle "unused", "live" or "unloaded"
    starts,      \* startRecording invocations suspended at its 1st, 2nd and 3rd await
    stops,       \* stopRecording invocations suspended at stopAndUnloadAsync
    pickers,     \* pickImage invocations suspended at the picker
    timers,      \* pending setTimeout callbacks of stopRecording
    speech,      \* utterances handed to Speech.speak whose onDone has not fired
    uri,         \* the local `uri` of the stopRecording segment that just ran
    picked,      \* result.assets[0].uri of the pickImage segment that just ran
    lastOp,      \* the handler segment that just ran
    opPre,       \* the state record without the updates of the operation that just ran
    speakCalls   \* the speakDiagnosis calls made by the segment that just ran

vars == <<state, recording, captures, starts, stops, pickers, timers, speech,
          uri, picked, lastOp, opPre, speakCalls>>

\* useState initial value
InitialState ==
    [isRecording |-> FALSE, audioUri |-> NoUri, imageUri |-> NoUri,
     diagnosis |-> "", isProcessing |-> FALSE, isSpeaking |-> FALSE]

\* the continuations the event loop still owes the panel
Pending == starts[1] + starts[2] + starts[3] + Cardinality(stops) + pickers + timers

Init ==
    /\ state = InitialState
    /\ recording = NoHandle
    /\ captures = [h \in CaptureIds |-> "unused"]
    /\ starts = [k \in 1..3 |-> 0]
    /\ stops = {}
    /\ pickers = 0
    /\ timers = 0
    /\ speech = <<>>
    /\ uri = NoUri
    /\ picked = NoUri
    /\ lastOp = "mount"
    /\ opPre = InitialState
    /\ speakCalls = <<>>

\* ---- startRecording -------------------------------------------------------
\* record button pressed while state.isRecording is false: startRecording runs
\* up to `await Audio.requestPermissionsAsync()`
PressStart ==
    /\ ~state.isRecording
    /\ Pending < MaxPending
    /\ starts' = [starts EXCEPT ![1] = @ + 1]
    /\ lastOp' = "startRecording"
    /\ opPre' = state
    /\ uri' = NoUri
    /\ picked' = NoUri
    /\ speakCalls' = <<>>
    /\ UNCHANGED <<state, recording, captures, stops, pickers, timers, speech>>

\* requestPermissionsAsync (k = 1) or setAudioModeAsync (k = 2) resolves and
\* startRecording goes on to its next await.  The result of the permission
\* request is not looked at: after a denial the handler goes on all the same,
\* and it is createAsync that rejects
StartResumed(k) ==
    /\ k \in {1, 2}
    /\ starts[k] > 0
    /\ starts' = [starts EXCEPT ![k] = @ - 1, ![k + 1] = @ + 1]
    /\ lastOp' = "startRecording:resumed"
    /\ opPre' = state
    /\ uri' = NoUri
    /\ picked' = NoUri
    /\ speakCalls' = <<>>
    /\ UNCHANGED <<state, recording, captures, stops, pickers, timers, speech>>

\* setState(prev => ({...prev, isRecording: true}))
SetRecordingTrue(prev) == [prev EXCEPT !.isRecording = TRUE]

\* createAsync resolves with a new capture:
\* recording.current = newRecording, then the setState
RecordingCreated ==
    /\ starts[3] > 0
    /\ \E h \in CaptureIds :
        /\ captures[h] = "unused"
        /\ \A k \in CaptureIds : k < h => captures[k] # "unused"
        /\ captures' = [captures EXCEPT ![h] = "live"]
        /\ recording' = h
    /\ state' = SetRecordingTrue(state)
    /\ starts' = [starts EXCEPT ![3] = @ - 1]
    /\ lastOp' = "startRecording:done"
    /\ opPre' = state
    /\ uri' = NoUri
    /\ picked' = NoUri
    /\ speakCalls' = <<>>
    /\ UNCHANGED <<stops, pickers, timers, speech>>

\* StartFailed as it would be with the setState issued before the awaits and
\* a catch that does not take it back
StartFailed_FlagSetEarly(k) ==
    /\ starts[k] > 0
    /\ starts' = [starts EXCEPT ![k] = @ - 1]
    /\ state' = SetRecordingTrue(state)
    /\ lastOp' = "startRecording:failed"
    /\ opPre' = state
    /\ uri' = NoUri
    /\ picked' = NoUri
    /\ speakCalls' = <<>>
    /\ UNCHANGED <<recording, captures, stops, pickers, timers, speech>>

\* the k-th awaited call rejects: catch (err) logs and returns
StartFailed(k) ==
    /\ starts[k] > 0
    /\ starts' = [starts EXCEPT ![k] = @ - 1]
    /\ lastOp' = "startRecording:failed"
    /\ opPre' = state
    /\ uri' = NoUri
    /\ picked' = NoUri
    /\ speakCalls' = <<>>
    /\ UNCHANGED <<state, recording, captures, stops, pickers, timers, speech>>

\* ---- stopRecording --------------------------------------------------------
\* setState(prev => ({...prev, isRecording: false, isProcessing: true}))
SetStopped(prev) == [prev EXCEPT !.isRecording = FALSE, !.isProcessing = TRUE]

\* record button pressed while state.isRecording is true and recording.current
\* is null: `if (!recording.current) return`
PressStopNoCapture ==
    /\ state.isRecording
    /\ recording = NoHandle
    /\ lastOp' = "stopRecording:noop"
    /\ opPre' = state
    /\ uri' = NoUri
    /\ picked' = NoUri
    /\ speakCalls' = <<>>
    /\ UNCHANGED <<state, recording, captures, starts, stops, pickers, timers, speech>>

\* PressStop as it would be without `if (!recording.current) return`
PressStop_NoRefGuard ==
    /\ state.isRecording
    /\ Pending < MaxPending
    /\ stops' = stops \cup {[h |-> recording, wasRecording |-> state.isRecording,
                             wasProcessing |-> state.isProcessing]}
    /\ state' = SetStopped(state)
    /\ lastOp' = "stopRecording"
    /\ opPre' = state
    /\ uri' = NoUri
    /\ picked' = NoUri
    /\ speakCalls' = <<>>
    /\ UNCHANGED <<recording, captures, starts, pickers, timers, speech>>

\* record button pressed while state.isRecording is true and a handle is held:
\* the setState, then recording.current.stopAndUnloadAsync() is called and
\* awaited.  The suspended invocation is kept with the handle it is unloading
\* and with the fields its setState overwrote
PressStop ==
    /\ state.isRecording
    /\ recording # NoHandle
    /\ Pending < MaxPending
    /\ stops' = stops \cup {[h |-> recording, wasRecording |-> state.isRecording,
                             wasProcessing |-> state.isProcessing]}
    /\ state' = SetStopped(state)
    /\ lastOp' = "stopRecording"
    /\ opPre' = state
    /\ uri' = NoUri
    /\ picked' = NoUri
    /\ speakCalls' = <<>>
    /\ UNCHANGED <<recording, captures, starts, pickers, timers, speech>>

\* stopAndUnloadAsync resolves: the capture is finalized.  The rest of the
\* handler reads recording.current again: when it still holds a handle, uri is
\* that handle's location, the ref is cleared and the 1500 ms timer is set
StopFinished ==
  \E s \in stops :
    /\ recording # NoHandle
    /\ captures' = [captures EXCEPT ![s.h] = "unloaded"]
    /\ uri' = getURI(recording)
    /\ picked' = NoUri
    /\ recording' = NoHandle
    /\ timers' = timers + 1
    /\ stops' = stops \ {s}
    /\ lastOp' = "stopRecording:done"
    /\ opPre' = [state EXCEPT !.isRecording = s.wasRecording, !.isProcessing = s.wasProcessing]
    /\ speakCalls' = <<>>
    /\ UNCHANGED <<state, starts, pickers, speech>>

\* stopAndUnloadAsync resolves after another invocation has cleared the ref:
\* recording.current.getURI() throws a TypeError out of the handler, which has
\* no try; nothing after line 52 runs
StopThrewOnNullRef ==
  \E s \in stops :
    /\ recording = NoHandle
    /\ captures' = [captures EXCEPT ![s.h] = "unloaded"]
    /\ stops' = stops \ {s}
    /\ lastOp' = "stopRecording:threw"
    /\ opPre' = [state EXCEPT !.isRecording = s.wasRecording, !.isProcessing = s.wasProcessing]
    /\ uri' = NoUri
    /\ picked' = NoUri
    /\ speakCalls' = <<>>
    /\ UNCHANGED <<state, recording, starts, pickers, timers, speech>>

\* stopAndUnloadAsync rejects: the rejection leaves the handler, which has no
\* try; nothing after line 51 runs
StopRejected ==
  \E s \in stops :
    /\ stops' = stops \ {s}
    /\ lastOp' = "stopRecording:rejected"
    /\ opPre' = [state EXCEPT !.isRecording = s.wasRecording, !.isProcessing = s.wasProcessing]
    /\ uri' = NoUri
    /\ picked' = NoUri
    /\ speakCalls' = <<>>
    /\ UNCHANGED <<state, recording, captures, starts, pickers, timers, speech>>

\* ---- pickImage ------------------------------------------------------------
\* Upload Image pressed: pickImage runs up to `await launchImageLibraryAsync(..)`
PressUpload ==
    /\ Pending < MaxPending
    /\ pickers' = pickers + 1
    /\ lastOp' = "pickImage"
    /\ opPre' = state
    /\ uri' = NoUri
    /\ picked' = NoUri
    /\ speakCalls' = <<>>
    /\ UNCHANGED <<state, recording, captures, starts, stops, timers, speech>>

\* SetImageUri as it would be with an object built from the mount-time state
SetImageUri_FromMount(prev, u) == [InitialState EXCEPT !.imageUri = u]
\* setState(prev => ({...prev, imageUri: result.assets[0].uri}))
SetImageUri(prev, u) == [prev EXCEPT !.imageUri = u]

\* the picker resolves with result.canceled true
PickerCanceled ==
    /\ pickers > 0
    /\ pickers' = pickers - 1
    /\ lastOp' = "pickImage:canceled"
    /\ opPre' = state
    /\ uri' = NoUri
    /\ picked' = NoUri
    /\ speakCalls' = <<>>
    /\ UNCHANGED <<state, recording, captures, starts, stops, timers, speech>>

\* the picker resolves with an asset
PickerSelected(u) ==
    /\ pickers > 0
    /\ pickers' = pickers - 1
    /\ state' = SetImageUri(state, u)
    /\ lastOp' = "pickImage:selected"
    /\ opPre' = state
    /\ uri' = NoUri
    /\ picked' = u
    /\ speakCalls' = <<>>
    /\ UNCHANGED <<recording, captures, starts, stops, timers, speech>>

\* the picker rejects: the rejection leaves pickImage, which has no try
PickerRejected ==
    /\ pickers > 0
    /\ pickers' = pickers - 1
    /\ lastOp' = "pickImage:rejected"
    /\ opPre' = state
    /\ uri' = NoUri
    /\ picked' = NoUri
    /\ speakCalls' = <<>>
    /\ UNCHANGED <<state, recording, captures, starts, stops, timers, speech>>

\* ---- speakDiagnosis -------------------------------------------------------
\* setState(prev => ({...prev, isSpeaking: true}))
SetSpeakingTrue(prev) == [prev EXCEPT !.isSpeaking = TRUE]
\* SetSpeakingFalse as it would be with an updater that returns prev as it is
SetSpeakingFalse_Forgotten(prev) == prev
\* setState(prev => ({...prev, isSpeaking: false})), in onDone and in catch
SetSpeakingFalse(prev) == [prev EXCEPT !.isSpeaking = FALSE]

\* speakDiagnosis(text) called when the state record is prev.  ok: Speech.speak
\* takes the utterance, and onDone fires later; ~ok: it throws, and the catch
\* runs before any other handler segment
speakDiagnosis(prev, text, ok) ==
    /\ Len(speech) < MaxSessions
    /\ state' = IF ok THEN SetSpeakingTrue(prev) ELSE SetSpeakingFalse(SetSpeakingTrue(prev))
    /\ speech' = IF ok THEN Append(speech, text) ELSE speech
    /\ speakCalls' = <<[text |-> text, wasSpeaking |-> prev.isSpeaking]>>
    /\ opPre' = prev
    /\ uri' = NoUri
    /\ picked' = NoUri

\* PressSpeak as it would be with the button rendered from mount
PressSpeak_AlwaysRendered(ok) ==
    /\ ~state.isSpeaking
    /\ speakDiagnosis(state, state.diagnosis, ok)
    /\ lastOp' = IF ok THEN "speakDiagnosis" ELSE "speakDiagnosis:failed"
    /\ UNCHANGED <<recording, captures, starts, stops, pickers, timers>>

\* Speak Diagnosis pressed; the button is rendered when state.diagnosis is
\* non-empty and is disabled while state.isSpeaking
PressSpeak(ok) ==
    /\ state.diagnosis # ""
    /\ ~state.isSpeaking
    /\ speakDiagnosis(state, state.diagnosis, ok)
    /\ lastOp' = IF ok THEN "speakDiagnosis" ELSE "speakDiagnosis:failed"
    /\ UNCHANGED <<recording, captures, starts, stops, pickers, timers>>

\* the synthesizer finishes the utterance at the head of its queue: onDone
SpeechDone ==
    /\ speech # <<>>
    /\ speech' = Tail(speech)
    /\ state' = SetSpeakingFalse(state)
    /\ lastOp' = "speakDiagnosis:onDone"
    /\ opPre' = state
    /\ uri' = NoUri
    /\ picked' = NoUri
    /\ speakCalls' = <<>>
    /\ UNCHANGED <<recording, captures, starts, stops, pickers, timers>>

\* ---- processConsultation --------------------------------------------------
\* setState(prev => ({...prev, isProcessing: true}))
SetProcessingTrue(prev) == [prev EXCEPT !.isProcessing = TRUE]
\* SetDiagnosis as it would be with an updater that leaves isProcessing alone
SetDiagnosis_KeepsProcessing(prev) == [prev EXCEPT !.diagnosis = mockDiagnosis]
\* SetDiagnosis as it would be with a text made from the selected image
SetDiagnosis_FromImage(prev) ==
    [prev EXCEPT !.diagnosis = IF prev.imageUri = NoUri THEN mockDiagnosis
                                ELSE "Based on the provided image: ...",
                 !.isProcessing = FALSE]
\* setState(prev => ({...prev, diagnosis: mockDiagnosis, isProcessing: false}))
SetDiagnosis(prev) == [prev EXCEPT !.diagnosis = mockDiagnosis, !.isProcessing = FALSE]

\* processConsultation has no await: its two updates and the call of
\* speakDiagnosis(mockDiagnosis) run in one segment
processConsultation(ok) ==
    speakDiagnosis(SetDiagnosis(SetProcessingTrue(state)), mockDiagnosis, ok)

\* Get Diagnosis pressed; the button is rendered when state.imageUri is set
PressGetDiagnosis(ok) ==
    /\ state.imageUri # NoUri
    /\ processConsultation(ok)
    /\ lastOp' = IF ok THEN "processConsultation" ELSE "processConsultation:speakFailed"
    /\ UNCHANGED <<recording, captures, starts, stops, pickers, timers>>

\* the timer set by stopRecording fires
TimerFired(ok) ==
    /\ timers > 0
    /\ timers' = timers - 1
    /\ processConsultation(ok)
    /\ lastOp' = IF ok THEN "processConsultation" ELSE "processConsultation:speakFailed"
    /\ UNCHANGED <<recording, captures, starts, stops, pickers>>

\* ---- the panel ------------------------------------------------------------
StartSettled ==
    \/ \E k \in {1, 2} : StartResumed(k)
    \/ RecordingCreated
    \/ \E k \in 1..3 : StartFailed(k)

StopSettled == StopFinished \/ StopThrewOnNullRef \/ StopRejected

Next ==
    \/ PressStart
    \/ \E k \in {1, 2} : StartResumed(k)
    \/ RecordingCreated
    \/ \E k \in 1..3 : StartFailed(k)
    \/ PressStopNoCapture
    \/ PressStop
    \/ StopFinished
    \/ StopThrewOnNullRef
    \/ StopRejected
    \/ PressUpload
    \/ PickerCanceled
    \/ \E u \in ImageUris : PickerSelected(u)
    \/ PickerRejected
    \/ \E ok \in BOOLEAN : PressSpeak(ok)
    \/ SpeechDone
    \/ \E ok \in BOOLEAN : PressGetDiagnosis(ok)
    \/ \E ok \in BOOLEAN : TimerFired(ok)

Spec == Init /\ [][Next]_vars

\* The platform settles every call it was handed and fires every timer; the
\* user is never obliged to press anything or to leave the picker.  A pending
\* timer is owed its step even when the bound on the synthesizer's queue
\* disables it from time to time: strong fairness.
FairSpec ==
    /\ Spec
    /\ WF_vars(StartSettled)
    /\ WF_vars(StopSettled)
    /\ SF_vars(\E ok \in BOOLEAN : TimerFired(ok))
    /\ WF_vars(SpeechDone)

\* Only this much of it: the synthesizer finishes every utterance it took.
SpeechFairSpec == Spec /\ WF_vars(SpeechDone)

\* ==== properties ===========================================================
FailedOps ==
    {"startRecording:failed", "stopRecording:rejected", "pickImage:rejected",
     "speakDiagnosis:failed", "processConsultation:speakFailed"}
StopPressed == {"stopRecording", "stopRecording:noop"}
DiagnosisReady == state.diagnosis = mockDiagnosis /\ ~state.isProcessing

\* C1: in every reachable state at most one of isRecording and isProcessing
\* is true.
C1_RecordingExcludesProcessing == ~(state.isRecording /\ state.isProcessing)

\* C2: speakDiagnosis is never invoked while isSpeaking is true, and at most
\* one speech-synthesis session is in flight at any time.
C2_SpeechNeverOverlaps ==
    /\ \A n \in 1..Len(speakCalls) : ~speakCalls[n].wasSpeaking
    /\ Len(speech) <= 1

\* C3: when stopRecording has finished on an active capture, state.audioUri is
\* the location the capture handle returned.
C3_AudioUriStored == lastOp = "stopRecording:done" => state.audioUri = uri

\* C4: when a platform call has failed inside an operation, the state record
\* is what it was without that operation: for startRecording, stopRecording
\* and pickImage its value before the operation's updates, for speakDiagnosis
\* that value with isSpeaking cleared.
C4_FailureRestoresState ==
    /\ lastOp \in {"startRecording:failed", "stopRecording:rejected", "pickImage:rejected"}
        => state = opPre
    /\ lastOp \in {"speakDiagnosis:failed", "processConsultation:speakFailed"}
        => state = SetSpeakingFalse(opPre)

\* C5: whenever stopRecording has been accepted on an active capture, the
\* panel eventually shows the fixed diagnosis with isProcessing false.
C5_StopLeadsToDiagnosis == (lastOp = "stopRecording") ~> DiagnosisReady

\* C6: a speakDiagnosis call whose utterance the synthesizer took leaves
\* isSpeaking true, and every speakDiagnosis call, taken or failed, is
\* eventually followed by isSpeaking false.
C6_SpeakingSetThenReset ==
    /\ []((speakCalls # <<>> /\ lastOp \notin FailedOps) => state.isSpeaking)
    /\ (speakCalls # <<>>) ~> ~state.isSpeaking
C6_Witness ==
    /\ lastOp = "speakDiagnosis:onDone"
    /\ ~state.isSpeaking
    /\ state.diagnosis = mockDiagnosis

\* C7: a failing startRecording step changes neither the state record nor the
\* recording ref and creates no capture; as long as no startRecording has
\* succeeded, isRecording is false and the ref is null.
C7_StartFailureChangesNothing ==
    /\ [][lastOp' = "startRecording:failed"
            => (state' = state /\ recording' = recording /\ captures' = captures)]_vars
    /\ []((\A h \in CaptureIds : captures[h] = "unused")
            => (~state.isRecording /\ recording = NoHandle))
C7_Witness ==
    /\ lastOp = "startRecording:failed"
    /\ ~state.isRecording
    /\ recording = NoHandle

C9_NoSecondCapture ==
    /\ lastOp = "startRecording" => ~opPre.isRecording
    /\ lastOp = "startRecording:done" => ~opPre.isRecording

\* C10: from the accepted stop until the diagnosis generation it schedules
\* has run (the stopRecording is suspended, or its timer is pending),
\* isProcessing is true.
C10_ProcessingUntilDiagnosis == (stops # {} \/ timers > 0) => state.isProcessing

\* C11: a processConsultation segment, from the Get Diagnosis press or from
\* the timer, ends with diagnosis the fixed literal and isProcessing false,
\* has made exactly one speakDiagnosis call, on that text, which leaves
\* isSpeaking true when the synthesizer took the utterance, and changes none
\* of isRecording, audioUri and imageUri.
Generated == {"processConsultation", "processConsultation:speakFailed"}
C11_GenerateDiagnosisEffect ==
    [][lastOp' \in Generated
        => /\ state'.diagnosis = mockDiagnosis
           /\ ~state'.isProcessing
           /\ Len(speakCalls') = 1
           /\ speakCalls'[1].text = state'.diagnosis
           /\ state'.isSpeaking = (lastOp' = "processConsultation")
           /\ state'.isRecording = state.isRecording
           /\ state'.audioUri = state.audioUri
           /\ state'.imageUri = state.imageUri]_vars
C11_Witness ==
    /\ lastOp = "processConsultation"
    /\ state.diagnosis = mockDiagnosis
    /\ ~state.isProcessing
    /\ state.isSpeaking
    /\ speakCalls = <<[text |-> mockDiagnosis, wasSpeaking |-> FALSE]>>

\* C12: in every reachable state diagnosis is the empty string or the fixed
\* literal, whatever audioUri and imageUri are.
C12_DiagnosisIsFixedText == state.diagnosis \in {"", mockDiagnosis}
C12_Witness ==
    /\ state.diagnosis = mockDiagnosis
    /\ state.audioUri = NoUri
    /\ state.imageUri = NoUri

\* C13: pickImage changes only imageUri. When the picker resolves canceled
\* the whole state is unchanged; when it resolves with a selection imageUri
\* becomes the location the picker returned and every other field keeps the
\* value it has at that moment, whatever ran while the picker was open.
C13_PickImageChangesOnlyImageUri ==
    [][/\ lastOp' = "pickImage:canceled" => state' = state
       /\ lastOp' = "pickImage:selected"
            => /\ picked' \in ImageUris
               /\ state' = [state EXCEPT !.imageUri = picked']]_vars
C13_Witness ==
    /\ lastOp = "pickImage:selected"
    /\ picked = <<"image", 2>>
    /\ opPre.imageUri = <<"image", 1>>
    /\ state = [opPre EXCEPT !.imageUri = picked]
    /\ state.isRecording

\* C14: whenever isRecording is true the ref holds a capture that is live;
\* isRecording true with the ref null is never reached.
C14_RecordingImpliesLiveHandle ==
    state.isRecording => (recording # NoHandle /\ captures[recording] = "live")

\* C15: no capture is leaked: every capture that createAsync has returned and
\* that is not yet unloaded is the one the ref holds, so the ref is neither
\* overwritten by a second start nor cleared by another capture's stop.
C15_NoCaptureLeaked ==
    \A h \in CaptureIds : captures[h] = "live" => recording = h

\* C16: while an utterance handed to the synthesizer has not completed,
\* isSpeaking is true.
C16_SpeakingWhileSessionOpen == speech # <<>> => state.isSpeaking

\* C17: isSpeaking true implies diagnosis is non-empty, and once diagnosis is
\* non-empty no step sets it back to the empty string.
C17_SpeakingImpliesDiagnosis ==
    /\ [](state.isSpeaking => state.diagnosis # "")
    /\ [][state.diagnosis # "" => state'.diagnosis # ""]_vars
C17_Witness ==
    /\ lastOp = "speakDiagnosis"
    /\ state.isSpeaking
    /\ opPre.diagnosis = mockDiagnosis
    /\ state.diagnosis = mockDiagnosis
    /\ state.imageUri = NoUri

====
